---- MODULE Spec2Model ----
(***************************************************************************)
(* Model of youtrack-catchup: the paginated search of YouTrackClient       *)
(* (api_client.py), the custom-field normaliser, and the callers in        *)
(* __main__.py (validate_period, fetch_my_issues, main).                   *)
(*                                                                         *)
(* JSON data is modelled as tagged values: a tag t and a payload field     *)
(* named after the type (s, n, o, l).                                      *)
(* A Python dict that is an issue record is a function from key strings to *)
(* tagged values.                                                          *)
(***************************************************************************)
EXTENDS Integers, Sequences, FiniteSets, TLC

VARIABLES entry, args, dataset, pc, gen, yielded, http_requests,
          page_requests, last_request, transport_error, error, result,
          norm_in, norm_out, norm_arg, request_log, pulls,
          generators, consumed, requested_skips, norm_again

vars == <<entry, args, dataset, pc, gen, yielded, http_requests,
          page_requests, last_request, transport_error, error, result,
          norm_in, norm_out, norm_arg, request_log, pulls,
          generators, consumed, requested_skips, norm_again>>

\* the state of two generators made by the same client
two == <<generators, consumed, requested_skips>>

(***************************************************************************)
(* Bounds of the model.                                                    *)
(***************************************************************************)
MaxSmall == 3
MaxOver == 2
MaxRequests == 110
MaxPeriodLen == 3
MaxListLen == 2
MaxTwo == 2

(***************************************************************************)
(* Program constants (config.py).                                          *)
(***************************************************************************)
default_page_size == 50
max_page_size == 100
fetch_page_size == 50

\* Optional[int]: None or an integer
None == [some |-> FALSE, v |-> 0]
Some(n) == [some |-> TRUE, v |-> n]

NoResult == [ok |-> FALSE, value |-> <<>>]
NoError == [type |-> "none", cause |-> "", arg |-> <<>>]
NoRequest == [endpoint |-> "none", skip |-> 0, top |-> 0]

Min(a, b) == IF a < b THEN a ELSE b

(***************************************************************************)
(* JSON values.                                                            *)
(***************************************************************************)
JNull == [t |-> "null"]
JStr(s) == [t |-> "str", s |-> s]
JNum(n) == [t |-> "num", n |-> n]
JObj(f) == [t |-> "obj", o |-> f]
JList(s) == [t |-> "list", l |-> s]
PyMap(f) == [t |-> "map", m |-> f]

EmptyDict == [k \in {} |-> JNull]

Put(m, k, val) == [q \in DOMAIN m \cup {k} |-> IF q = k THEN val ELSE m[q]]
DictGet(d, k, default) == IF k \in DOMAIN d THEN d[k] ELSE default

\* the outcome of a call: a returned value or a raised exception
Returned(val) == [ok |-> TRUE, value |-> val]
Raised(exc) == [ok |-> FALSE, exc |-> exc]
YouTrackAPIError(cause) == [type |-> "YouTrackAPIError", cause |-> cause, arg |-> <<>>]
ValueError(cause, arg) == [type |-> "ValueError", cause |-> cause, arg |-> arg]
TypeError == [type |-> "TypeError", cause |-> "customFields", arg |-> <<>>]
AttributeError == [type |-> "AttributeError", cause |-> "get", arg |-> <<>>]

(***************************************************************************)
(* YouTrackClient._normalize_custom_fields (api_client.py 145-203).        *)
(***************************************************************************)
\* lines 171-179 with login tested before name
UnwrapObject_loginFirst(field_value) ==
    IF "login" \in DOMAIN field_value.o THEN field_value.o["login"]
    ELSE IF "name" \in DOMAIN field_value.o THEN field_value.o["name"]
    ELSE IF "text" \in DOMAIN field_value.o THEN field_value.o["text"]
    ELSE field_value

\* lines 171-179: a dict value is replaced by its name, login or text
UnwrapObject(field_value) ==
    IF "name" \in DOMAIN field_value.o THEN field_value.o["name"]
    ELSE IF "login" \in DOMAIN field_value.o THEN field_value.o["login"]
    ELSE IF "text" \in DOMAIN field_value.o THEN field_value.o["text"]
    ELSE field_value

\* lines 184-192: one item of a multi-value field
UnwrapItem(item) ==
    IF item.t = "obj"
    THEN IF "name" \in DOMAIN item.o THEN item.o["name"]
         ELSE IF "login" \in DOMAIN item.o THEN item.o["login"]
         ELSE item
    ELSE item

\* lines 167-195: the normalized value of one custom field
NormalizeValue(field_value) ==
    IF field_value.t = "null" THEN JNull
    ELSE IF field_value.t = "obj" THEN UnwrapObject(field_value)
    ELSE IF field_value.t = "list"
         THEN JList([i \in 1..Len(field_value.l) |-> UnwrapItem(field_value.l[i])])
    ELSE field_value

\* a dict key must be hashable: lists and dicts are not
IsHashable(k) == k.t \notin {"list", "obj"}

\* line 163: what `for custom_field in <x>` iterates over
IterItems(x) ==
    IF x.t = "list" THEN Returned(x.l)
    ELSE IF x.t = "str" THEN Returned(IF x.s = "" THEN <<>> ELSE <<JStr(x.s)>>)
    ELSE IF x.t = "obj"
         THEN Returned(IF DOMAIN x.o = {} THEN <<>>
                       ELSE <<JStr(CHOOSE k \in DOMAIN x.o : TRUE)>>)
    ELSE Raised(TypeError)

\* lines 163-195: the loop body, from entry i on, with the map built so far
RECURSIVE NormalizeLoop(_, _, _)
NormalizeLoop(items, i, custom_fields_map) ==
    IF i > Len(items) THEN Returned(custom_fields_map)
    ELSE LET custom_field == items[i] IN
         IF custom_field.t # "obj" THEN Raised(AttributeError)
         ELSE LET field_name == DictGet(custom_field.o, "name", JStr(""))
                  field_value == DictGet(custom_field.o, "value", JNull)
              IN IF ~IsHashable(field_name) THEN Raised(TypeError)
                 ELSE NormalizeLoop(items, i + 1,
                          Put(custom_fields_map, field_name,
                              NormalizeValue(field_value)))

\* line 158 without the copy: lines 198-201 write into the caller's dict
InputAfterWrites_noCopy(issue, normalized) == normalized

\* line 158: normalized = issue.copy(), so the writes of lines 198-201 go to
\* the copy and the caller's dict keeps its content
InputAfterWrites(issue, normalized) == issue

\* line 201 storing the flattened map in place of the original list
_normalize_custom_fields_rawIsMap(issue) ==
    IF "customFields" \notin DOMAIN issue THEN Returned(issue)
    ELSE LET it == IterItems(issue["customFields"]) IN
         IF ~it.ok THEN it
         ELSE LET m == NormalizeLoop(it.value, 1, EmptyDict) IN
              IF ~m.ok THEN m
              ELSE Returned(Put(Put(issue, "custom_fields", PyMap(m.value)),
                                "_raw_custom_fields", PyMap(m.value)))

_normalize_custom_fields(issue) ==
    IF "customFields" \notin DOMAIN issue THEN Returned(issue)
    ELSE LET it == IterItems(issue["customFields"]) IN
         IF ~it.ok THEN it
         ELSE LET m == NormalizeLoop(it.value, 1, EmptyDict) IN
              IF ~m.ok THEN m
              ELSE Returned(Put(Put(issue, "custom_fields", PyMap(m.value)),
                                "_raw_custom_fields", issue["customFields"]))

(***************************************************************************)
(* The server: a fixed, ordered dataset that honours $skip and $top.       *)
(***************************************************************************)
OpenState == JObj([name |-> JStr("State"), value |-> JObj([name |-> JStr("Open")])])

Issue(i) ==
    LET b0 == [id |-> JNum(i)]
        b1 == IF i % 4 = 0 THEN b0 ELSE Put(b0, "updated", JNum((i % 3) * 100))
    IN IF i % 2 = 0 THEN Put(b1, "customFields", JList(<<OpenState>>)) ELSE b1

Dataset(n) == [i \in 1..n |-> Issue(i)]

ServerPage(ds, skip, top) == SubSeq(ds, skip + 1, Min(skip + top, Len(ds)))

\* what the transport can do with one request
Outcomes == {"ok", "http_error", "network_error", "invalid_json"}

(***************************************************************************)
(* YouTrackClient._make_request (api_client.py 90-130): the parsed body,   *)
(* or YouTrackAPIError for an HTTP error status, a failed request or a     *)
(* body that is not JSON.                                                  *)
(***************************************************************************)
\* lines 101-114 without the inner except: the ValueError of response.json()
\* is not a RequestException and leaves the function as it is
_make_request_jsonEscapes(outcome, body) ==
    IF outcome = "ok" THEN Returned(body)
    ELSE IF outcome = "empty" THEN Returned(EmptyDict)
    ELSE IF outcome = "invalid_json" THEN Raised(ValueError("JSONDecodeError", <<>>))
    ELSE Raised(YouTrackAPIError(outcome))

_make_request(outcome, body) ==
    IF outcome = "ok" THEN Returned(body)
    ELSE IF outcome = "empty" THEN Returned(EmptyDict)
    ELSE Raised(YouTrackAPIError(outcome))

\* lines 45-50: the adapter retries these statuses for these methods and
\* gives up with a RetryError
status_forcelist == {429, 500, 502, 503, 504}
allowed_methods == {"HEAD", "GET", "PUT", "DELETE", "OPTIONS", "TRACE"}

\* lines 91-130: which way _make_request leaves, for what the transport did.
\* t.kind is "response" or the RequestException raised by session.request
ResponseOutcome(method, t) ==
    IF t.kind # "response" THEN "network_error"
    ELSE IF method \in allowed_methods /\ t.status \in status_forcelist
         THEN "network_error"
    ELSE IF t.status >= 400 THEN "http_error"
    ELSE IF t.status = 204 \/ t.body = "empty" THEN "empty"
    ELSE IF t.body = "text" THEN "invalid_json"
    ELSE "ok"

\* line 102: response.json()
ParsedBody(t) ==
    IF t.body = "json_list" THEN <<[id |-> JNum(1)]>>
    ELSE IF t.body = "json_error" THEN <<[error_description |-> JStr("Not Found")]>>
    ELSE <<[login |-> JStr("me")]>>

(***************************************************************************)
(* YouTrackClient.search_issues (api_client.py 238-278).                   *)
(***************************************************************************)
\* lines 238-245 without the cap
ClampTop_uncapped(top) == IF ~top.some THEN default_page_size ELSE top.v

\* lines 238-245: the page size sent as $top
ClampTop(top) ==
    IF ~top.some THEN default_page_size
    ELSE IF top.v > max_page_size THEN max_page_size
    ELSE top.v

\* line 248
SearchParams(skip, top) == [endpoint |-> "issues", skip |-> skip, top |-> ClampTop(top)]

\* line 267: normalization of every returned issue
NormalizeAll(issues) == [i \in 1..Len(issues) |-> _normalize_custom_fields(issues[i]).value]

\* line 270 as "the page is not empty"
HasMore_nonEmpty(issues, top) == Len(issues) > 0

\* line 270
HasMore(issues, top) == Len(issues) = top

search_issues(ds, skip, top, outcome) ==
    LET params == SearchParams(skip, top)
        response == _make_request(outcome, ServerPage(ds, params.skip, params.top))
    IN IF ~response.ok THEN response
       ELSE LET issues == NormalizeAll(response.value) IN
            Returned([issues |-> issues, total |-> Len(issues),
                      has_more |-> HasMore(issues, params.top),
                      skip |-> skip, top |-> params.top])

(***************************************************************************)
(* YouTrackClient.get_issue (api_client.py 371-385).                       *)
(***************************************************************************)
get_issue(ds, issue_id, outcome) ==
    LET response == _make_request(outcome, IF issue_id \in 1..Len(ds)
                                           THEN ds[issue_id] ELSE EmptyDict)
    IN IF ~response.ok THEN response
       ELSE _normalize_custom_fields(response.value)

(***************************************************************************)
(* YouTrackClient.search_all_issues (api_client.py 308-349): a generator.  *)
(* Its frame is a record; pc is where the generator is suspended or what   *)
(* it runs next: "created", "loop" (line 314), "yielded" (line 337),       *)
(* "done" (StopIteration), "raised".                                       *)
(***************************************************************************)
\* lines 280-312 as an ordinary function: the body starts at the call
NewGenerator_eager(query, page_size, max_results) ==
    [pc |-> "loop", query |-> query, page_size_arg |-> page_size,
     max_results |-> max_results,
     page_size |-> IF ~page_size.some THEN default_page_size ELSE page_size.v,
     skip |-> 0, total_yielded |-> 0, batch_size |-> 0, issues |-> <<>>,
     has_more |-> FALSE, idx |-> 0, exc |-> NoError]

\* the generator object before its first next(): no line of the body has run
NewGenerator(query, page_size, max_results) ==
    [pc |-> "created", query |-> query, page_size_arg |-> page_size,
     max_results |-> max_results, page_size |-> 0, skip |-> 0,
     total_yielded |-> 0, batch_size |-> 0, issues |-> <<>>,
     has_more |-> FALSE, idx |-> 0, exc |-> NoError]

\* lines 308-312, run by the first next()
GenStart(g) ==
    [g EXCEPT !.pc = "loop",
              !.page_size = IF ~g.page_size_arg.some THEN default_page_size
                            ELSE g.page_size_arg.v,
              !.skip = 0, !.total_yielded = 0]

\* lines 316-319 with the test `remaining < 0`
BudgetExhausted_strict(g) == g.max_results.some /\ g.max_results.v - g.total_yielded < 0

\* lines 316-319
BudgetExhausted(g) == g.max_results.some /\ g.max_results.v - g.total_yielded <= 0

\* lines 320-322 without the remaining budget
BatchSize_ignoreBudget(g) == g.page_size

\* lines 316-322
BatchSize(g) ==
    IF g.max_results.some
    THEN Min(g.page_size, g.max_results.v - g.total_yielded)
    ELSE g.page_size

\* line 344 stopping only on an empty page
LastPage_emptyOnly(has_more, issues, batch_size) == Len(issues) = 0

\* line 344 without the under-sized test
LastPage_hasMoreOnly(has_more, issues, batch_size) == ~has_more

\* line 344
LastPage(has_more, issues, batch_size) == ~has_more \/ Len(issues) < batch_size

\* line 347 counting pages instead of issues
NextSkip_byOne(skip, issues) == skip + 1

\* line 347 left out: the offset never advances
NextSkip_stuck(skip, issues) == skip

\* line 347
NextSkip(skip, issues) == skip + Len(issues)

\* lines 344-347, after the for loop over the page
GenAfterPage(g) ==
    IF LastPage(g.has_more, g.issues, g.batch_size)
    THEN [g EXCEPT !.pc = "done"]
    ELSE [g EXCEPT !.pc = "loop", !.skip = NextSkip(g.skip, g.issues)]

\* lines 333-337: the page came back; yield its first issue, if any
GenFetched(g, batch_size, res) ==
    LET g1 == [g EXCEPT !.batch_size = batch_size, !.issues = res.issues,
                        !.has_more = res.has_more, !.idx = 0]
    IN IF Len(res.issues) > 0 THEN [g1 EXCEPT !.pc = "yielded", !.idx = 1]
       ELSE GenAfterPage(g1)

\* line 340
CapReached(max_results, total_yielded) ==
    max_results.some /\ total_yielded >= max_results.v

\* lines 338-341 and 336: resumed after a yield
GenResume(g) ==
    LET g1 == [g EXCEPT !.total_yielded = g.total_yielded + 1] IN
    IF CapReached(g1.max_results, g1.total_yielded) THEN [g1 EXCEPT !.pc = "done"]
    ELSE IF g1.idx < Len(g1.issues)
         THEN [g1 EXCEPT !.pc = "yielded", !.idx = g1.idx + 1]
         ELSE GenAfterPage(g1)

\* line 325 wrapped in a try/except that ends the sequence
GenRaise_swallowed(g, batch_size, exc) ==
    [g EXCEPT !.pc = "done", !.batch_size = batch_size]

\* line 325: search_issues raised; nothing in the generator catches it
GenRaise(g, batch_size, exc) ==
    [g EXCEPT !.pc = "raised", !.batch_size = batch_size, !.exc = exc]

\* lines 308-312 with skip kept on the client object: every generator of the
\* client sees the offset the last one wrote
StoreFrame_sharedSkip(gs, i, g) ==
    [j \in DOMAIN gs |-> IF j = i THEN g ELSE [gs[j] EXCEPT !.skip = g.skip]]

\* lines 308-347: page_size, skip, total_yielded, batch_size, result and
\* issues are locals of the generator's own frame; a step of generator i
\* writes frame i only
StoreFrame(gs, i, g) == [gs EXCEPT ![i] = g]

\* the issue handed to the consumer when the generator stops at a yield
Delivered(g, ys) == IF g.pc = "yielded" THEN Append(ys, g.issues[g.idx]) ELSE ys

(***************************************************************************)
(* validate_period (__main__.py 25-46).  A string is a sequence of         *)
(* one-character strings.                                                  *)
(***************************************************************************)
Digits == {"0", "1", "2", "3", "4", "5", "6", "7", "8", "9"}
Units == {"y", "M", "w", "d", "h", "m"}
Whitespace == {" "}

RECURSIVE LStrip(_)
LStrip(s) == IF s # <<>> /\ Head(s) \in Whitespace THEN LStrip(Tail(s)) ELSE s

RECURSIVE RStrip(_)
RStrip(s) ==
    IF s # <<>> /\ s[Len(s)] \in Whitespace THEN RStrip(SubSeq(s, 1, Len(s) - 1))
    ELSE s

\* line 40 left out: the string is matched as given
Strip_none(s) == s

\* line 40: period.strip()
Strip(s) == RStrip(LStrip(s))

\* line 39: ^(\d+[yMwdhm]\s*)+$ as an automaton; q is "group" (a new group
\* must start), "digits" (inside \d+), "unit" (after the unit, inside \s*)
RECURSIVE PatternMatch(_, _)
PatternMatch(s, q) ==
    IF s = <<>> THEN q = "unit"
    ELSE LET c == Head(s) IN
         IF c \in Digits THEN PatternMatch(Tail(s), "digits")
         ELSE IF c \in Units THEN q = "digits" /\ PatternMatch(Tail(s), "unit")
         ELSE IF c \in Whitespace THEN q = "unit" /\ PatternMatch(Tail(s), "unit")
         ELSE FALSE

validate_period(period) ==
    LET stripped == Strip(period) IN
    IF ~PatternMatch(stripped, "group")
    THEN Raised(ValueError("Invalid period format", stripped))
    ELSE Returned(stripped)

(***************************************************************************)
(* fetch_my_issues (__main__.py 83-100).                                   *)
(***************************************************************************)
\* line 98: the sort key x.get("updated", 0)
UpdatedKey(x) == IF "updated" \in DOMAIN x THEN x["updated"].n ELSE 0

\* the same, but x goes in front of the elements with its own key (a sort
\* that does not keep ties in their original order)
RECURSIVE InsertDesc_unstable(_, _)
InsertDesc_unstable(sorted, x) ==
    IF sorted = <<>> THEN <<x>>
    ELSE IF UpdatedKey(Head(sorted)) > UpdatedKey(x)
         THEN <<Head(sorted)>> \o InsertDesc_unstable(Tail(sorted), x)
         ELSE <<x>> \o sorted

\* insert x behind every element whose key is at least x's key
RECURSIVE InsertDesc(_, _)
InsertDesc(sorted, x) ==
    IF sorted = <<>> THEN <<x>>
    ELSE IF UpdatedKey(Head(sorted)) >= UpdatedKey(x)
         THEN <<Head(sorted)>> \o InsertDesc(Tail(sorted), x)
         ELSE <<x>> \o sorted

\* line 98: issues.sort(key=..., reverse=True), a stable sort
RECURSIVE SortByUpdatedDesc(_)
SortByUpdatedDesc(issues) ==
    IF issues = <<>> THEN <<>>
    ELSE InsertDesc(SortByUpdatedDesc(SubSeq(issues, 1, Len(issues) - 1)),
                    issues[Len(issues)])

\* line 87: the query built around the validated period
MyIssuesQuery(period) == <<"involves me, updated: {minus">> \o period \o <<"} .. Today">>

(***************************************************************************)
(* Inputs.                                                                 *)
(***************************************************************************)
DatasetSizes ==
    (0..MaxSmall) \cup ((default_page_size - 1)..(default_page_size + 1))
                  \cup ((max_page_size - 1)..(max_page_size + MaxOver))
PageSizes ==
    (0..MaxSmall) \cup {default_page_size, max_page_size}
                  \cup ((max_page_size + 1)..(max_page_size + MaxOver))
PageSizeArgs == {None} \cup {Some(n) : n \in PageSizes}
MaxResultsArgs ==
    {None} \cup {Some(n) : n \in (0..MaxSmall) \cup
                     {default_page_size + 1, max_page_size, max_page_size + MaxOver}}
PeriodAlphabet == {"7", "d", " ", "x"}
Periods == UNION {[1..n -> PeriodAlphabet] : n \in 0..MaxPeriodLen}
Datasets == {Dataset(n) : n \in DatasetSizes}

NoTransport == [kind |-> "none", status |-> 0, body |-> "empty"]
NoArgs == [page_size |-> None, max_results |-> None, skip |-> 0, top |-> None,
           issue_id |-> 0, since |-> <<>>, env_ok |-> TRUE,
           method |-> "GET", transport |-> NoTransport]
IdleGenerator == NewGenerator(<<>>, None, None)
GeneratorIds == 1..2
\* the second application of the normaliser has not been made
NotRenormalized == [done |-> FALSE, direct |-> NoResult, from_raw |-> NoResult]

Count(n) == IF n < MaxRequests THEN n + 1 ELSE n

\* history of the page requests of the generator: what was asked of
\* search_issues (line 329), what was sent (line 248), what came back, and
\* what the consumer had pulled and received when the request was made
LogEntry(g, batch_size, r, ys, npulls, log) ==
    [skip |-> g.skip, asked |-> batch_size,
     top |-> SearchParams(g.skip, Some(batch_size)).top,
     ok |-> r.ok,
     returned |-> IF r.ok THEN Len(r.value.issues) ELSE 0,
     has_more |-> IF r.ok THEN r.value.has_more ELSE FALSE,
     yielded_before |-> Len(ys), pulls |-> npulls,
     fetched_before |-> IF log = <<>> THEN 0
                        ELSE log[Len(log)].fetched_before + log[Len(log)].returned]
Logged(log, e) == IF Len(log) < MaxRequests THEN Append(log, e) ELSE log

InitCommon ==
    /\ yielded = <<>>
    /\ http_requests = 0
    /\ page_requests = 0
    /\ last_request = NoRequest
    /\ transport_error = NoError
    /\ error = NoError
    /\ result = NoResult
    /\ request_log = <<>>
    /\ pulls = 0
    /\ norm_again = NotRenormalized

\* no second generator is in use
InitOneGenerator ==
    /\ generators = [i \in GeneratorIds |-> IdleGenerator]
    /\ consumed = [i \in GeneratorIds |-> <<>>]
    /\ requested_skips = [i \in GeneratorIds |-> {}]

InitSearchAll ==
    /\ entry = "search_all_issues"
    /\ \E ps \in PageSizeArgs, mr \in MaxResultsArgs :
          /\ args = [NoArgs EXCEPT !.page_size = ps, !.max_results = mr]
          /\ gen = NewGenerator(<<>>, ps, mr)
    /\ pc = "pulling"

InitSearchIssues ==
    /\ entry = "search_issues"
    /\ \E sk \in 0..MaxSmall, tp \in PageSizeArgs :
          args = [NoArgs EXCEPT !.skip = sk, !.top = tp]
    /\ gen = IdleGenerator
    /\ pc = "call"

InitGetIssue ==
    /\ entry = "get_issue"
    /\ \E id \in 1..(MaxSmall + 1) : args = [NoArgs EXCEPT !.issue_id = id]
    /\ gen = IdleGenerator
    /\ pc = "call"

InitFetchMyIssues ==
    /\ entry = "fetch_my_issues"
    /\ \E since \in Periods : args = [NoArgs EXCEPT !.since = since]
    /\ gen = IdleGenerator
    /\ pc = "call"

InitMain ==
    /\ entry = "main"
    /\ \E since \in Periods, env_ok \in BOOLEAN :
          args = [NoArgs EXCEPT !.since = since, !.env_ok = env_ok]
    /\ gen = IdleGenerator
    /\ pc = "main"

Init ==
    /\ dataset \in Datasets
    /\ InitCommon
    /\ InitOneGenerator
    /\ norm_in = EmptyDict
    /\ norm_out = NoResult
    /\ norm_arg = EmptyDict
    /\ \/ InitSearchAll
       \/ InitSearchIssues
       \/ InitGetIssue
       \/ InitFetchMyIssues
       \/ InitMain

(***************************************************************************)
(* Actions.                                                                *)
(***************************************************************************)
\* where an exception that escapes the running call ends up: main's except
\* clauses (lines 348-363) exit with status 1, any other caller sees it raised
OnRaise(exc) ==
    /\ error' = exc
    /\ pc' = IF entry = "main" THEN "exit1" ELSE "raised"

\* the consumer calls next() on the generator (the for loop of
\* fetch_my_issues, line 92, or any consumer that pulls to the end)
Pull ==
    /\ pc = "pulling"
    /\ gen.pc \in {"created", "yielded"}
    /\ gen' = IF gen.pc = "created" THEN GenStart(gen) ELSE GenResume(gen)
    /\ yielded' = Delivered(gen', yielded)
    /\ pulls' = pulls + 1
    /\ UNCHANGED <<entry, args, dataset, pc, http_requests, page_requests,
                   last_request, transport_error, error, result, norm_in, norm_out,
                   norm_arg, request_log, two, norm_again>>

\* lines 316-319: the budget is used up at the top of the loop
LoopBreak ==
    /\ pc = "pulling"
    /\ gen.pc = "loop"
    /\ BudgetExhausted(gen)
    /\ gen' = [gen EXCEPT !.pc = "done"]
    /\ UNCHANGED <<entry, args, dataset, pc, yielded, http_requests, page_requests,
                   last_request, transport_error, error, result, norm_in, norm_out, norm_arg, request_log, pulls, two, norm_again>>

\* lines 320-347: one page request and what the generator does with the answer
FetchPage ==
    /\ pc = "pulling"
    /\ gen.pc = "loop"
    /\ ~BudgetExhausted(gen)
    /\ \E outcome \in Outcomes :
          LET batch_size == BatchSize(gen)
              r == search_issues(dataset, gen.skip, Some(batch_size), outcome)
          IN /\ last_request' = SearchParams(gen.skip, Some(batch_size))
             /\ http_requests' = Count(http_requests)
             /\ page_requests' = Count(page_requests)
             /\ gen' = IF r.ok THEN GenFetched(gen, batch_size, r.value)
                       ELSE GenRaise(gen, batch_size, r.exc)
             /\ transport_error' = IF r.ok THEN transport_error ELSE r.exc
             /\ yielded' = Delivered(gen', yielded)
             /\ IF gen'.pc = "raised" THEN OnRaise(gen'.exc)
                ELSE UNCHANGED <<pc, error>>
             /\ request_log' = Logged(request_log,
                                      LogEntry(gen, batch_size, r, yielded, pulls,
                                               request_log))
    /\ UNCHANGED <<entry, args, dataset, result, norm_in, norm_out, norm_arg, pulls, two, norm_again>>

\* the consumer sees the end of the sequence; fetch_my_issues sorts and
\* returns (lines 97-100)
EndOfSequence ==
    /\ pc = "pulling"
    /\ gen.pc = "done"
    /\ pc' = "returned"
    /\ result' = IF entry = "search_all_issues" THEN Returned(yielded)
                 ELSE Returned(SortByUpdatedDesc(yielded))
    /\ UNCHANGED <<entry, args, dataset, gen, yielded, http_requests, page_requests,
                   last_request, transport_error, error, norm_in, norm_out, norm_arg, request_log, pulls, two, norm_again>>

\* the caller of search_all_issues drops the generator while it is suspended
\* (before the first next(), or at the yield of line 336)
StopPulling ==
    /\ entry = "search_all_issues"
    /\ pc = "pulling"
    /\ gen.pc \in {"created", "yielded"}
    /\ pc' = "abandoned"
    /\ UNCHANGED <<entry, args, dataset, gen, yielded, http_requests, page_requests,
                   last_request, transport_error, error, result, norm_in, norm_out,
                   norm_arg, request_log, pulls, two, norm_again>>

\* a direct call of search_issues
SearchIssuesCall ==
    /\ entry = "search_issues"
    /\ pc = "call"
    /\ \E outcome \in Outcomes :
          LET r == search_issues(dataset, args.skip, args.top, outcome) IN
          /\ last_request' = SearchParams(args.skip, args.top)
          /\ http_requests' = Count(http_requests)
          /\ page_requests' = Count(page_requests)
          /\ IF r.ok
             THEN /\ result' = r
                  /\ pc' = "returned"
                  /\ UNCHANGED <<transport_error, error>>
             ELSE /\ transport_error' = r.exc
                  /\ OnRaise(r.exc)
                  /\ UNCHANGED result
    /\ UNCHANGED <<entry, args, dataset, gen, yielded, norm_in, norm_out, norm_arg, request_log, pulls, two, norm_again>>

\* a direct call of get_issue; an unknown id is answered with an error status
GetIssueCall ==
    /\ entry = "get_issue"
    /\ pc = "call"
    /\ \E outcome \in Outcomes :
          /\ outcome = "ok" => args.issue_id \in 1..Len(dataset)
          /\ LET r == get_issue(dataset, args.issue_id, outcome) IN
             /\ last_request' = [endpoint |-> "issues/id", skip |-> 0, top |-> 0]
             /\ http_requests' = Count(http_requests)
             /\ IF r.ok
                THEN /\ result' = r
                     /\ pc' = "returned"
                     /\ UNCHANGED <<transport_error, error>>
                ELSE /\ transport_error' = r.exc
                     /\ OnRaise(r.exc)
                     /\ UNCHANGED result
    /\ UNCHANGED <<entry, args, dataset, gen, yielded, page_requests, norm_in, norm_out, norm_arg, request_log, pulls, two, norm_again>>

\* fetch_my_issues lines 83-94: validate the period, build the query and
\* create the generator
FetchMyIssuesCall ==
    /\ entry \in {"fetch_my_issues", "main"}
    /\ pc = "call"
    /\ LET period == validate_period(args.since) IN
       IF period.ok
       THEN /\ gen' = NewGenerator(MyIssuesQuery(period.value),
                                   Some(fetch_page_size), None)
            /\ pc' = "pulling"
            /\ UNCHANGED error
       ELSE /\ OnRaise(period.exc)
            /\ UNCHANGED gen
    /\ UNCHANGED <<entry, args, dataset, yielded, http_requests, page_requests,
                   last_request, transport_error, result, norm_in, norm_out, norm_arg, request_log, pulls, two, norm_again>>

\* main lines 233-245: Config(), the client, and get_current_user
MainConnect ==
    /\ entry = "main"
    /\ pc = "main"
    /\ IF ~args.env_ok
       THEN /\ OnRaise(ValueError("Required environment variable", <<>>))
            /\ UNCHANGED <<http_requests, last_request, transport_error>>
       ELSE \E outcome \in Outcomes :
               LET user == _make_request(outcome, [login |-> JStr("me")]) IN
               /\ last_request' = [endpoint |-> "users/me", skip |-> 0, top |-> 0]
               /\ http_requests' = Count(http_requests)
               /\ IF user.ok
                  THEN /\ pc' = "call"
                       /\ UNCHANGED <<transport_error, error>>
                  ELSE /\ transport_error' = user.exc
                       /\ OnRaise(user.exc)
    /\ UNCHANGED <<entry, args, dataset, gen, yielded, page_requests, result,
                   norm_in, norm_out, norm_arg, request_log, pulls, two, norm_again>>

\* main lines 263-346: the issues are displayed and main returns
MainFinish ==
    /\ entry = "main"
    /\ pc = "returned"
    /\ pc' = "exit0"
    /\ UNCHANGED <<entry, args, dataset, gen, yielded, http_requests, page_requests,
                   last_request, transport_error, error, result, norm_in, norm_out, norm_arg, request_log, pulls, two, norm_again>>

Next ==
    \/ Pull
    \/ LoopBreak
    \/ FetchPage
    \/ EndOfSequence
    \/ StopPulling
    \/ SearchIssuesCall
    \/ GetIssueCall
    \/ FetchMyIssuesCall
    \/ MainConnect
    \/ MainFinish

Spec == Init /\ [][Next]_vars

(***************************************************************************)
(* _normalize_custom_fields on its own: the raw issue records it is given. *)
(***************************************************************************)
KeyValue(k) ==
    IF k = "name" THEN JStr("Open")
    ELSE IF k = "login" THEN JStr("ignored")
    ELSE IF k = "text" THEN JStr("hello")
    ELSE JStr("1-1")

ObjectOver(ks) == JObj([k \in ks |-> KeyValue(k)])
Objects == {ObjectOver(ks) : ks \in SUBSET {"name", "login", "text", "id"}}
Scalars == {JStr("Open"), JNum(7)}
ListItems ==
    {ObjectOver(ks) : ks \in SUBSET {"name", "login", "text"}}
        \cup {JStr("Open"), JNull, JList(<<>>)}
Lists == {JList(l) : l \in UNION {[1..n -> ListItems] : n \in 0..MaxListLen}}
FieldValues == {JNull} \cup Scalars \cup Objects \cup Lists

\* the name of an entry: a string, null, a number, or an unhashable list
FieldNames == {JStr("State"), JStr("Type"), JNull, JNum(1), JList(<<>>)}

Entries ==
    {JObj([name |-> n, value |-> fv]) : n \in FieldNames, fv \in FieldValues}
        \cup {JObj([value |-> fv]) : fv \in FieldValues}
        \cup {JObj([name |-> n]) : n \in FieldNames}
        \cup {JObj(EmptyDict)}
\* entries that are not objects
BadEntries == {JNull, JStr("State"), JNum(1), JList(<<>>)}
FirstEntries ==
    {JObj([name |-> JStr("State"), value |-> ObjectOver({"login"})]),
     JObj([name |-> JStr("Type"), value |-> JNull]),
     JObj([value |-> JNum(7)]),
     JObj([name |-> JList(<<>>), value |-> JNull]),
     JStr("State")}

CustomFieldsShapes ==
    {JNull, JNum(1), JStr(""), JStr("State"), JObj(EmptyDict),
     ObjectOver({"name"}), JList(<<>>)}
        \cup {JList(<<e>>) : e \in Entries \cup BadEntries}
        \cup {JList(<<e1, e2>>) : e1 \in FirstEntries, e2 \in Entries \cup BadEntries}

IssueBases ==
    {[id |-> JStr("A-1"), summary |-> JStr("s")],
     [id |-> JStr("A-2"), custom_fields |-> PyMap([k \in {JStr("Old")} |-> JNull])]}

RawIssues ==
    IssueBases \cup {Put(b, "customFields", cf) : b \in IssueBases,
                                                  cf \in CustomFieldsShapes}

InitNorm ==
    /\ entry = "_normalize_custom_fields"
    /\ args = NoArgs
    /\ dataset = <<>>
    /\ gen = IdleGenerator
    /\ pc = "call"
    /\ InitCommon
    /\ InitOneGenerator
    /\ norm_in \in RawIssues
    /\ norm_out = NoResult
    /\ norm_arg = norm_in

\* one call of _normalize_custom_fields
NormalizeCall ==
    /\ entry = "_normalize_custom_fields"
    /\ pc = "call"
    /\ norm_out' = _normalize_custom_fields(norm_in)
    /\ IF norm_out'.ok
       THEN pc' = "returned" /\ UNCHANGED error
       ELSE OnRaise(norm_out'.exc)
    /\ norm_arg' = IF norm_out'.ok /\ "customFields" \in DOMAIN norm_in
                    THEN InputAfterWrites(norm_in, norm_out'.value)
                    ELSE norm_in
    /\ UNCHANGED <<entry, args, dataset, gen, yielded, http_requests, page_requests,
                   last_request, transport_error, result, norm_in, request_log, pulls, two, norm_again>>

\* the normaliser applied a second time: to the issue the first call
\* returned, and to the input with customFields replaced by the first result's
\* _raw_custom_fields
NormalizeAgain ==
    /\ entry = "_normalize_custom_fields"
    /\ pc = "returned"
    /\ ~norm_again.done
    /\ norm_again' =
          [done |-> TRUE,
           direct |-> _normalize_custom_fields(norm_out.value),
           from_raw |-> IF "_raw_custom_fields" \in DOMAIN norm_out.value
                        THEN _normalize_custom_fields(
                                 Put(norm_in, "customFields",
                                     norm_out.value["_raw_custom_fields"]))
                        ELSE NoResult]
    /\ UNCHANGED <<entry, args, dataset, pc, gen, yielded, http_requests,
                   page_requests, last_request, transport_error, error, result,
                   norm_in, norm_out, norm_arg, request_log, pulls, two>>

NextNorm == NormalizeCall \/ NormalizeAgain

SpecNorm == InitNorm /\ [][NextNorm]_vars

(***************************************************************************)
(* validate_period on its own.                                             *)
(***************************************************************************)
PeriodChars == {"7", "0", "d", "M", " ", "x"}
PeriodStrings == UNION {[1..n -> PeriodChars] : n \in 0..MaxPeriodLen}

InitPeriod ==
    /\ entry = "validate_period"
    /\ \E since \in PeriodStrings : args = [NoArgs EXCEPT !.since = since]
    /\ dataset = <<>>
    /\ gen = IdleGenerator
    /\ pc = "call"
    /\ InitCommon
    /\ InitOneGenerator
    /\ norm_in = EmptyDict
    /\ norm_out = NoResult
    /\ norm_arg = EmptyDict

\* one call of validate_period
ValidatePeriodCall ==
    /\ entry = "validate_period"
    /\ pc = "call"
    /\ LET r == validate_period(args.since) IN
       IF r.ok
       THEN /\ result' = r
            /\ pc' = "returned"
            /\ UNCHANGED error
       ELSE /\ OnRaise(r.exc)
            /\ UNCHANGED result
    /\ UNCHANGED <<entry, args, dataset, gen, yielded, http_requests, page_requests,
                   last_request, transport_error, norm_in, norm_out, norm_arg,
                   request_log, pulls, two, norm_again>>

NextPeriod == ValidatePeriodCall

SpecPeriod == InitPeriod /\ [][NextPeriod]_vars

(***************************************************************************)
(* Two search_all_issues generators of one client, pulled in any order.    *)
(* The request counters of the single-consumer flow are not kept here.     *)
(***************************************************************************)
TwoDatasets == {Dataset(n) : n \in 0..(MaxTwo + 1)}
TwoPageSizeArgs == {None} \cup {Some(n) : n \in 0..MaxTwo}
TwoMaxResultsArgs == {None} \cup {Some(n) : n \in 0..MaxTwo}

InitTwo ==
    /\ entry = "two_generators"
    /\ args = NoArgs
    /\ dataset \in TwoDatasets
    /\ gen = IdleGenerator
    /\ pc = "pulling"
    /\ InitCommon
    /\ norm_in = EmptyDict
    /\ norm_out = NoResult
    /\ norm_arg = EmptyDict
    /\ \E ps1 \in TwoPageSizeArgs, mr1 \in TwoMaxResultsArgs,
          ps2 \in TwoPageSizeArgs, mr2 \in TwoMaxResultsArgs :
          generators = <<NewGenerator(<<>>, ps1, mr1), NewGenerator(<<>>, ps2, mr2)>>
    /\ consumed = [i \in GeneratorIds |-> <<>>]
    /\ requested_skips = [i \in GeneratorIds |-> {}]

\* next() on generator i: lines 308-312 at the first call, lines 336-347 at
\* the later ones
PullOf(i) ==
    /\ generators[i].pc \in {"created", "yielded"}
    /\ LET g == IF generators[i].pc = "created" THEN GenStart(generators[i])
                ELSE GenResume(generators[i])
       IN /\ generators' = StoreFrame(generators, i, g)
          /\ consumed' = [consumed EXCEPT ![i] = Delivered(g, @)]
    /\ UNCHANGED requested_skips

\* lines 316-319 in generator i
LoopBreakOf(i) ==
    /\ generators[i].pc = "loop"
    /\ BudgetExhausted(generators[i])
    /\ generators' = StoreFrame(generators, i, [generators[i] EXCEPT !.pc = "done"])
    /\ UNCHANGED <<consumed, requested_skips>>

\* lines 320-347 in generator i
FetchPageOf(i) ==
    /\ generators[i].pc = "loop"
    /\ ~BudgetExhausted(generators[i])
    /\ \E outcome \in Outcomes :
          LET g0 == generators[i]
              batch_size == BatchSize(g0)
              r == search_issues(dataset, g0.skip, Some(batch_size), outcome)
              g == IF r.ok THEN GenFetched(g0, batch_size, r.value)
                   ELSE GenRaise(g0, batch_size, r.exc)
          IN /\ generators' = StoreFrame(generators, i, g)
             /\ consumed' = [consumed EXCEPT ![i] = Delivered(g, @)]
             /\ requested_skips' =
                   [requested_skips EXCEPT
                       ![i] = @ \cup {SearchParams(g0.skip, Some(batch_size)).skip}]

StepTwo ==
    /\ entry = "two_generators"
    /\ \E i \in GeneratorIds : PullOf(i) \/ LoopBreakOf(i) \/ FetchPageOf(i)
    /\ UNCHANGED <<entry, args, dataset, pc, gen, yielded, http_requests,
                   page_requests, last_request, transport_error, error, result,
                   norm_in, norm_out, norm_arg, request_log, pulls, norm_again>>

NextTwo == StepTwo

SpecTwo == InitTwo /\ [][NextTwo]_vars

(***************************************************************************)
(* _make_request on its own: the responses and failures of the transport.  *)
(***************************************************************************)
Statuses == {200, 201, 204, 304, 400, 401, 404, 429, 500, 503}
Bodies == {"empty", "json_dict", "json_list", "json_error", "text"}
Failures == {"ConnectionError", "Timeout", "RetryError"}
Transports ==
    {[kind |-> "response", status |-> st, body |-> b] : st \in Statuses, b \in Bodies}
        \cup {[kind |-> f, status |-> 0, body |-> "empty"] : f \in Failures}
Methods == {"GET", "POST", "DELETE"}

InitRequest ==
    /\ entry = "_make_request"
    /\ \E m \in Methods, t \in Transports :
          args = [NoArgs EXCEPT !.method = m, !.transport = t]
    /\ dataset = <<>>
    /\ gen = IdleGenerator
    /\ pc = "call"
    /\ InitCommon
    /\ InitOneGenerator
    /\ norm_in = EmptyDict
    /\ norm_out = NoResult
    /\ norm_arg = EmptyDict

\* one call of _make_request
MakeRequestCall ==
    /\ entry = "_make_request"
    /\ pc = "call"
    /\ LET r == _make_request(ResponseOutcome(args.method, args.transport),
                              ParsedBody(args.transport)) IN
       /\ http_requests' = Count(http_requests)
       /\ IF r.ok
          THEN /\ result' = r
               /\ pc' = "returned"
               /\ UNCHANGED <<transport_error, error>>
          ELSE /\ transport_error' = r.exc
               /\ OnRaise(r.exc)
               /\ UNCHANGED result
    /\ UNCHANGED <<entry, args, dataset, gen, yielded, page_requests, last_request,
                   norm_in, norm_out, norm_arg, request_log, pulls, two, norm_again>>

NextRequest == MakeRequestCall

SpecRequest == InitRequest /\ [][NextRequest]_vars

(***************************************************************************)
(* Properties.                                                             *)
(***************************************************************************)
IsSearchAll == entry = "search_all_issues"
N == Len(dataset)
\* the page size search_all_issues works with
P == IF args.page_size.some THEN args.page_size.v ELSE default_page_size
CeilDiv(a, b) == (a + b - 1) \div b
IdsOf(issues) == [i \in 1..Len(issues) |-> issues[i]["id"]]

\* C1: with a page size of at least 1, a fully consumed search_all_issues
\* sequence that ends normally has yielded exactly min(N, max_results)
\* issues (N when max_results is None).
C1_YieldsExactlyMin ==
    (IsSearchAll /\ P >= 1 /\ pc = "returned")
        => Len(yielded) = IF args.max_results.some
                          THEN Min(N, args.max_results.v) ELSE N

\* C2: a page that returns zero issues always ends the loop of
\* search_all_issues, whatever the page size (0 included).
C2_ZeroPageEndsLoop ==
    (IsSearchAll /\ page_requests > 0 /\ gen.pc # "raised" /\ gen.issues = <<>>)
        => gen.pc = "done"

\* C3 as stated: with a page size of at least 1, search_all_issues makes at
\* most ceil(N/P) page requests.
C3_AtMostCeilRequests ==
    (IsSearchAll /\ P >= 1) => page_requests <= CeilDiv(N, P)

\* C3 as amended: with a page size of at least 1, search_all_issues makes at
\* most floor(N/P) + 1 page requests.
C3_AtMostFloorPlusOneRequests ==
    (IsSearchAll /\ P >= 1) => page_requests <= (N \div P) + 1

C3_Witness ==
    /\ IsSearchAll /\ P >= 1 /\ N > 0 /\ pc = "returned"
    /\ page_requests = (N \div P) + 1
    /\ page_requests > CeilDiv(N, P)

\* C4: the issues yielded so far are, in yield order, a prefix of the
\* dataset: none duplicated, skipped or reordered.
C4_YieldedIsPrefix ==
    (entry \in {"search_all_issues", "fetch_my_issues", "main"})
        => /\ Len(yielded) <= N
           /\ IdsOf(yielded) = IdsOf(SubSeq(dataset, 1, Len(yielded)))

C4_Witness ==
    /\ IsSearchAll /\ P >= 2 /\ gen.pc = "yielded"
    /\ gen.skip > 0 /\ Len(yielded) = gen.skip + 1

\* C5: with max_results = 0, search_all_issues yields nothing and makes no
\* request.
C5_ZeroBudgetNoRequest ==
    (IsSearchAll /\ args.max_results = Some(0))
        => /\ yielded = <<>>
           /\ page_requests = 0
           /\ http_requests = 0

C5_Witness ==
    /\ IsSearchAll /\ args.max_results = Some(0) /\ N > 0 /\ P >= 1
    /\ pc = "returned" /\ result = Returned(<<>>)

\* C6: once a request has raised the transport error, the caller has that
\* same error, no result is returned, the sequence has not ended normally,
\* and no further request is made.
C6_TransportErrorPropagates ==
    /\ [](transport_error # NoError
            => /\ error = transport_error
               /\ error.type = "YouTrackAPIError"
               /\ result = NoResult
               /\ pc \in {"raised", "exit1"}
               /\ gen.pc # "done")
    /\ [][transport_error # NoError
            => /\ http_requests' = http_requests
               /\ page_requests' = page_requests]_vars

C6_Witness ==
    /\ entry = "fetch_my_issues" /\ transport_error # NoError
    /\ page_requests >= 2 /\ yielded # <<>> /\ gen.pc = "raised"

\* C7: when the validation error for a malformed period is raised, no HTTP
\* request has been issued yet.
C7_ValidationBeforeNetwork ==
    (error.type = "ValueError" /\ error.cause = "Invalid period format")
        => http_requests = 0

IsNormalize == entry = "_normalize_custom_fields"
\* the customFields entries of the input, when it is a list of objects
InputFields == norm_in["customFields"].l
HasFieldList ==
    /\ "customFields" \in DOMAIN norm_in
    /\ norm_in["customFields"].t = "list"
    /\ \A i \in 1..Len(InputFields) : InputFields[i].t = "obj"
NameAt(i) == DictGet(InputFields[i].o, "name", JStr(""))
ValueAt(i) == DictGet(InputFields[i].o, "value", JNull)
\* no later entry has the same name
LastOfName(i) == \A j \in (i + 1)..Len(InputFields) : NameAt(j) # NameAt(i)
OutputFields == norm_out.value["custom_fields"].m

\* the unwrapping rule as the claims state it: name, else login, else text,
\* else the object itself; anything that is not an object unchanged
ClaimedUnwrap(x) ==
    IF x.t # "obj" THEN x
    ELSE IF "name" \in DOMAIN x.o THEN x.o["name"]
    ELSE IF "login" \in DOMAIN x.o THEN x.o["login"]
    ELSE IF "text" \in DOMAIN x.o THEN x.o["text"]
    ELSE x

\* C8: _normalize_custom_fields returns a result for every raw issue record
\* and never raises.
C8_NormalizeNeverRaises ==
    (IsNormalize /\ pc # "call") => (norm_out.ok /\ error = NoError)

\* C9: a field whose value is an object is normalized to the value's name,
\* else its login, else its text, else the object itself; null normalizes to
\* null and a scalar is unchanged.
C9_ObjectPrecedence ==
    (IsNormalize /\ pc = "returned" /\ HasFieldList)
        => \A i \in 1..Len(InputFields) :
              (ValueAt(i).t # "list" /\ LastOfName(i))
                  => OutputFields[NameAt(i)] = ClaimedUnwrap(ValueAt(i))

C9_Witness ==
    /\ IsNormalize /\ pc = "returned" /\ HasFieldList
    /\ Len(InputFields) = 1
    /\ ValueAt(1) = ObjectOver({"name", "login"})
    /\ OutputFields[NameAt(1)] = JStr("Open")

\* C10: a field whose value is a list is normalized to the list of its
\* elements, each unwrapped by the rule for a single object, in the same
\* order and of the same length.
C10_ListItemsUnwrapped ==
    (IsNormalize /\ pc = "returned" /\ HasFieldList)
        => \A i \in 1..Len(InputFields) :
              (ValueAt(i).t = "list" /\ LastOfName(i))
                  => OutputFields[NameAt(i)] =
                        JList([j \in 1..Len(ValueAt(i).l) |->
                                  ClaimedUnwrap(ValueAt(i).l[j])])

AddedKeys == {"custom_fields", "_raw_custom_fields"}

\* C11: _normalize_custom_fields leaves its input as it was; without a
\* customFields key it returns the input, otherwise a record that agrees with
\* the input on every key but custom_fields and _raw_custom_fields, the only
\* keys added, with _raw_custom_fields equal to the input's customFields.
C11_InputKeptAndOnlyTwoKeysAdded ==
    (IsNormalize /\ pc # "call")
        => /\ norm_arg = norm_in
           /\ pc = "returned"
                => IF "customFields" \notin DOMAIN norm_in
                   THEN norm_out.value = norm_in
                   ELSE /\ DOMAIN norm_out.value = DOMAIN norm_in \cup AddedKeys
                        /\ \A k \in DOMAIN norm_in \ AddedKeys :
                              norm_out.value[k] = norm_in[k]
                        /\ norm_out.value["_raw_custom_fields"] = norm_in["customFields"]

C11_Witness ==
    /\ IsNormalize /\ pc = "returned" /\ HasFieldList
    /\ "custom_fields" \in DOMAIN norm_in
    /\ Len(InputFields) = 2
    /\ norm_out.value["custom_fields"] # norm_in["custom_fields"]

IsValidate == entry = "validate_period"
AllIn(s, S) == \A i \in 1..Len(s) : s[i] \in S

\* s without its leading and trailing whitespace
Trimmed(s) ==
    IF AllIn(s, Whitespace) THEN <<>>
    ELSE LET first == CHOOSE i \in 1..Len(s) :
                         s[i] \notin Whitespace /\ AllIn(SubSeq(s, 1, i - 1), Whitespace)
             last == CHOOSE j \in 1..Len(s) :
                        s[j] \notin Whitespace /\ AllIn(SubSeq(s, j + 1, Len(s)), Whitespace)
         IN SubSeq(s, first, last)

\* g is <count><unit> followed by optional whitespace; with positive, the
\* count must not be zero
IsGroup(g, positive) ==
    \E d \in 1..(Len(g) - 1) :
        /\ AllIn(SubSeq(g, 1, d), Digits)
        /\ positive => \E i \in 1..d : g[i] # "0"
        /\ g[d + 1] \in Units
        /\ AllIn(SubSeq(g, d + 2, Len(g)), Whitespace)

\* s is one or more groups
RECURSIVE IsGroups(_, _)
IsGroups(s, positive) ==
    /\ s # <<>>
    /\ \E k \in 1..Len(s) :
          /\ IsGroup(SubSeq(s, 1, k), positive)
          /\ k = Len(s) \/ IsGroups(SubSeq(s, k + 1, Len(s)), positive)

PeriodDecided(positive) ==
    (IsValidate /\ pc # "call")
        => /\ pc = "returned" <=> IsGroups(Trimmed(args.since), positive)
           /\ pc = "returned" => result = Returned(Trimmed(args.since))
           /\ pc # "returned"
                => /\ pc = "raised"
                   /\ error.type = "ValueError"
                   /\ error.arg = Trimmed(args.since)
                   /\ result = NoResult

IsFetch == entry \in {"fetch_my_issues", "main"}
\* the timestamp an issue is ordered by: its updated field, 0 without one
ClaimedKey(x) == IF "updated" \in DOMAIN x THEN x["updated"].n ELSE 0

\* s ordered by timestamp, newest first, equal timestamps in the order of s
RECURSIVE StableDesc(_)
StableDesc(s) ==
    IF s = <<>> THEN <<>>
    ELSE LET newest == CHOOSE k \in {ClaimedKey(s[i]) : i \in 1..Len(s)} :
                          \A j \in 1..Len(s) : ClaimedKey(s[j]) <= k
             IsNewest(x) == ClaimedKey(x) = newest
             IsOlder(x) == ClaimedKey(x) # newest
         IN SelectSeq(s, IsNewest) \o StableDesc(SelectSeq(s, IsOlder))

\* C13: the list fetch_my_issues returns is the fetched issues ordered by
\* updated, newest first, an issue without updated counting as 0 and equal
\* timestamps keeping their fetch order.
C13_ResultSortedStable ==
    (IsFetch /\ pc \in {"returned", "exit0"})
        => /\ result.ok
           /\ result.value = StableDesc(yielded)

C13_Witness ==
    /\ entry = "fetch_my_issues" /\ pc = "returned" /\ N = 3
    /\ IdsOf(yielded) = <<JNum(1), JNum(2), JNum(3)>>
    /\ IdsOf(result.value) = <<JNum(2), JNum(1), JNum(3)>>

C13_WitnessTies ==
    /\ entry = "fetch_my_issues" /\ pc = "returned" /\ N > fetch_page_size
    /\ result.value # yielded
    /\ \E i, j \in 1..Len(yielded) :
          /\ i < j
          /\ "updated" \notin DOMAIN yielded[i]
          /\ "updated" \in DOMAIN yielded[j]
          /\ ClaimedKey(yielded[j]) = 0

IsSearchIssues == entry = "search_issues"
\* the page size the caller of search_issues passed, the default without one
PassedTop == IF args.top.some THEN args.top.v ELSE default_page_size
\* the page size after the cap at max_page_size
CappedTop == IF PassedTop > max_page_size THEN max_page_size ELSE PassedTop

\* C14 as stated: has_more is true exactly when the number of issues
\* returned equals the page size as the caller passed it.
C14_HasMoreIffPassedSize ==
    (IsSearchIssues /\ pc = "returned")
        => (result.value.has_more <=> Len(result.value.issues) = PassedTop)

\* C14 as amended: has_more is true exactly when the number of issues
\* returned equals the page size sent as $top, the passed size capped at
\* max_page_size.
C14_HasMoreIffSentSize ==
    (IsSearchIssues /\ pc = "returned")
        => (result.value.has_more <=> Len(result.value.issues) = CappedTop)

C14_Witness ==
    /\ IsSearchIssues /\ pc = "returned"
    /\ PassedTop > max_page_size
    /\ result.value.has_more
    /\ Len(result.value.issues) = max_page_size

Capped(size) == IF size > max_page_size THEN max_page_size ELSE size

\* C15: the $top of every request of search_issues, called directly or by
\* search_all_issues, is the requested size when that is at most
\* max_page_size and max_page_size otherwise: it never exceeds max_page_size.
C15_TopNeverExceedsMax ==
    /\ last_request.endpoint = "issues" => last_request.top <= max_page_size
    /\ (IsSearchIssues /\ pc # "call") => last_request.top = Capped(PassedTop)
    /\ \A k \in 1..Len(request_log) :
          /\ request_log[k].top <= max_page_size
          /\ request_log[k].top = Capped(request_log[k].asked)
    /\ (request_log # <<>> /\ page_requests < MaxRequests)
          => last_request.top = request_log[Len(request_log)].top

C15_Witness ==
    /\ IsSearchAll /\ request_log # <<>>
    /\ request_log[1].asked > max_page_size
    /\ request_log[1].top = max_page_size
    /\ request_log[1].returned = max_page_size

IsRequest == entry = "_make_request"
Answered == args.transport.kind = "response"
\* the adapter gave up retrying: session.request raises instead of answering
RetriesExhausted ==
    Answered /\ args.method \in allowed_methods /\ args.transport.status \in status_forcelist
ErrorStatus == Answered /\ args.transport.status >= 400
Non2xx == Answered /\ args.transport.status \notin 200..299
IsJson == args.transport.body \in {"json_dict", "json_list", "json_error"}

\* exactly one of: a value is returned, YouTrackAPIError is raised
TwoOutcomes ==
    \/ pc = "returned" /\ result.ok /\ error = NoError
    \/ pc = "raised" /\ ~result.ok /\ error.type = "YouTrackAPIError"

\* C16 as stated: _make_request returns the parsed JSON body or raises
\* YouTrackAPIError; a network failure, a non-2xx status and a body that is
\* not JSON each raise it.
C16_JsonOrApiError ==
    (IsRequest /\ pc # "call")
        => /\ TwoOutcomes
           /\ pc = "returned" => (IsJson /\ result.value = ParsedBody(args.transport))
           /\ (~Answered \/ Non2xx \/ ~IsJson) => pc = "raised"

\* C16 as amended: _make_request returns the parsed JSON body, or an empty
\* dict for status 204 or an empty body, or raises YouTrackAPIError; a network
\* failure, a status of 400 or above and a non-empty body that is not JSON
\* each raise it.
C16_DataOrApiError ==
    (IsRequest /\ pc # "call")
        => /\ TwoOutcomes
           /\ pc = "returned"
                => IF args.transport.status = 204 \/ args.transport.body = "empty"
                   THEN result.value = EmptyDict
                   ELSE IsJson /\ result.value = ParsedBody(args.transport)
           /\ (~Answered \/ ErrorStatus \/ RetriesExhausted) => pc = "raised"
           /\ (Answered /\ args.transport.status # 204 /\ args.transport.body = "text")
                => pc = "raised"

C16_Witness ==
    /\ IsRequest /\ pc = "raised" /\ error.type = "YouTrackAPIError"
    /\ Answered /\ args.transport.status = 200 /\ args.transport.body = "text"

\* the generator of search_all_issues is in use
UsesGenerator == entry \in {"search_all_issues", "fetch_my_issues", "main"}
Requests == 1..Len(request_log)
LastRequest == request_log[Len(request_log)]
\* issues returned by all the page requests made so far
Fetched == IF request_log = <<>> THEN 0
           ELSE LastRequest.fetched_before + LastRequest.returned

\* C17: with a page size of at least 1, the $skip of each page request is
\* the number of issues returned by all earlier pages (0 for the first), so
\* the skips of successive requests are strictly increasing and none repeats.
C17_SkipIsReturnedSoFar ==
    (IsSearchAll /\ P >= 1)
        => /\ \A k \in Requests : request_log[k].skip = request_log[k].fetched_before
           /\ \A k \in Requests : k > 1 => request_log[k].skip > request_log[k - 1].skip
           /\ \A j, k \in Requests : j # k => request_log[j].skip # request_log[k].skip
           /\ request_log # <<>> => request_log[1].skip = 0

C17_Witness ==
    /\ IsSearchAll /\ P >= 2 /\ Len(request_log) >= 3
    /\ request_log[3].skip = 2 * P
    /\ request_log[3].returned < P

\* the page of request e came back with exactly the number of issues asked
FullPage(e) == e.ok /\ e.has_more /\ e.returned = e.asked
ShortPage(e) == e.ok /\ e.returned < e.asked
BudgetLeft(n) == gen.max_results.some => n < gen.max_results.v

\* C18: a further page is requested if and only if the previous page came
\* back with exactly the number of issues asked for and fewer than
\* max_results issues have been yielded; after a short page, or once
\* max_results issues have been yielded, no request is made any more.
C18_FurtherPageIffFullAndBudget ==
    /\ [](UsesGenerator =>
            /\ \A k \in Requests : k < Len(request_log) =>
                  /\ FullPage(request_log[k])
                  /\ BudgetLeft(request_log[k].fetched_before + request_log[k].returned)
            /\ (request_log # <<>> /\ gen.pc = "loop") =>
                  (FullPage(LastRequest) /\ BudgetLeft(Len(yielded)))
            /\ (request_log # <<>> /\ gen.pc = "done") =>
                  (~FullPage(LastRequest) \/ ~BudgetLeft(Len(yielded))))
    /\ [][(UsesGenerator /\ \/ gen.pc = "done"
                            \/ request_log # <<>> /\ ShortPage(LastRequest)
                            \/ ~BudgetLeft(Len(yielded)))
            => (page_requests' = page_requests /\ request_log' = request_log)]_vars

C18_Witness ==
    /\ IsSearchAll /\ ~gen.max_results.some /\ pc = "returned"
    /\ Len(request_log) = 3
    /\ FullPage(request_log[2]) /\ ShortPage(request_log[3])

\* what min(page_size, max_results - yielded so far) is at request e
ClaimedBatch(e) ==
    IF gen.max_results.some
    THEN Min(gen.page_size, gen.max_results.v - e.yielded_before)
    ELSE gen.page_size
WithinBudgetAndAllYielded ==
    /\ gen.max_results.some => Fetched <= gen.max_results.v
    /\ Len(yielded) <= Fetched
    /\ gen.pc \in {"loop", "done"} => Len(yielded) = Fetched

\* C19 as stated: the $top of each page request is min(page_size,
\* max_results - yielded so far); the issues fetched never exceed max_results
\* and each of them is yielded.
C19_TopIsMinOfPageAndBudget ==
    UsesGenerator
        => /\ \A k \in Requests : request_log[k].top = ClaimedBatch(request_log[k])
           /\ WithinBudgetAndAllYielded

\* C19 as amended: each page request passes min(page_size, max_results -
\* yielded so far) to search_issues, which sends it as $top capped at
\* max_page_size; the issues fetched never exceed max_results and each of
\* them is yielded.
C19_AskedIsMinOfPageAndBudget ==
    UsesGenerator
        => /\ \A k \in Requests :
                 /\ request_log[k].asked = ClaimedBatch(request_log[k])
                 /\ request_log[k].top = Min(request_log[k].asked, max_page_size)
           /\ WithinBudgetAndAllYielded

C19_Witness ==
    /\ IsSearchAll /\ gen.max_results = Some(MaxSmall) /\ P = MaxSmall - 1
    /\ pc = "returned" /\ Len(request_log) = 2
    /\ request_log[2].asked = 1 /\ request_log[2].returned = 1
    /\ Len(yielded) = MaxSmall

\* C20: no page is requested before the first pull; each request is made
\* inside a pull, after every issue fetched before has been handed over; a
\* consumer that has stopped pulling causes no further request.
C20_LazyPullDriven ==
    /\ [](IsSearchAll =>
            /\ (gen.pc = "created" \/ pulls = 0) => (page_requests = 0 /\ request_log = <<>>)
            /\ \A k \in Requests :
                  /\ request_log[k].yielded_before = request_log[k].fetched_before
                  /\ request_log[k].pulls = request_log[k].yielded_before + 1)
    /\ [][(IsSearchAll /\ (pc = "abandoned" \/ pulls <= Len(yielded)))
            => (page_requests' = page_requests /\ request_log' = request_log)]_vars

C20_Witness ==
    /\ IsSearchAll /\ pc = "abandoned" /\ gen.pc = "yielded"
    /\ Len(request_log) = 2 /\ gen.idx = Len(gen.issues) /\ gen.has_more
    /\ Len(yielded) < N

IsTwo == entry = "two_generators"
IsPrefix(s, t) == Len(s) <= Len(t) /\ SubSeq(t, 1, Len(s)) = s

\* what a generator yields, and the skips it requests, when it is consumed
\* alone and every request succeeds; a page that leaves the generator where
\* it was repeats for ever and adds nothing
RECURSIVE RunAlone(_, _, _, _)
RunAlone(g, ds, ys, skips) ==
    IF g.pc = "created" THEN RunAlone(GenStart(g), ds, ys, skips)
    ELSE IF g.pc = "yielded"
         THEN LET g1 == GenResume(g) IN RunAlone(g1, ds, Delivered(g1, ys), skips)
    ELSE IF g.pc = "loop" /\ ~BudgetExhausted(g)
         THEN LET batch_size == BatchSize(g)
                  r == search_issues(ds, g.skip, Some(batch_size), "ok")
                  g1 == GenFetched(g, batch_size, r.value)
                  seen == skips \cup {g.skip}
              IN IF g1.pc = "loop" /\ g1.skip = g.skip
                 THEN [yielded |-> ys, skips |-> seen, ends |-> FALSE]
                 ELSE RunAlone(g1, ds, Delivered(g1, ys), seen)
    ELSE [yielded |-> ys, skips |-> skips, ends |-> TRUE]

Alone(i) ==
    RunAlone(NewGenerator(<<>>, generators[i].page_size_arg, generators[i].max_results),
             dataset, <<>>, {})

\* C21: two generators of one client pulled in any interleaving do not
\* interfere: each keeps its own skip and yielded count, each starts from
\* skip 0, and each yields the sequence it would yield alone.
C21_GeneratorsIndependent ==
    IsTwo => \A i \in GeneratorIds :
        LET g == generators[i] IN
        /\ g.total_yielded = Len(consumed[i]) - (IF g.pc = "yielded" THEN 1 ELSE 0)
        /\ g.pc = "loop" => g.skip = Len(consumed[i])
        /\ g.skip <= Len(consumed[i])
        /\ requested_skips[i] # {} => 0 \in requested_skips[i]
        /\ requested_skips[i] \subseteq Alone(i).skips
        /\ IsPrefix(consumed[i], Alone(i).yielded)
        /\ g.pc = "done" => /\ consumed[i] = Alone(i).yielded
                            /\ requested_skips[i] = Alone(i).skips
                            /\ Alone(i).ends

C21_Witness ==
    /\ IsTwo /\ Len(dataset) = MaxTwo + 1
    /\ generators[1].page_size = 1 /\ generators[2].page_size = MaxTwo
    /\ generators[1].pc = "yielded" /\ generators[2].pc = "yielded"
    /\ generators[1].skip = 1 /\ generators[2].skip = MaxTwo
    /\ Len(consumed[1]) = 2 /\ Len(consumed[2]) = MaxTwo + 1

\* the two results carry the same custom_fields mapping and the same
\* _raw_custom_fields (or both carry none)
SameFields(a, b) ==
    /\ a.ok /\ b.ok
    /\ \A k \in {"custom_fields", "_raw_custom_fields"} :
          /\ (k \in DOMAIN a.value) = (k \in DOMAIN b.value)
          /\ k \in DOMAIN a.value => a.value[k] = b.value[k]

\* C22: normalizing an already normalized issue, or an issue whose
\* customFields is the first result's _raw_custom_fields, gives the same
\* custom_fields mapping and the same _raw_custom_fields as the first result.
C22_NormalizeIdempotent ==
    (IsNormalize /\ norm_again.done)
        => /\ SameFields(norm_again.direct, norm_out)
           /\ norm_again.direct = norm_out
           /\ "customFields" \in DOMAIN norm_in
                => /\ "_raw_custom_fields" \in DOMAIN norm_out.value
                   /\ SameFields(norm_again.from_raw, norm_out)

C22_Witness ==
    /\ IsNormalize /\ norm_again.done
    /\ "customFields" \in DOMAIN norm_in
    /\ norm_in["customFields"].t = "list" /\ Len(norm_in["customFields"].l) = 2
    /\ norm_out.value["custom_fields"].m # EmptyDict
    /\ norm_again.from_raw = norm_out

====
